---- MODULE Spec2Model ----
(***************************************************************************)
(* Remote task lifecycle of the mode solver web API                        *)
(* (tidy3d/web/api/mode.py): run, ModeSolverTask.create, get_info, upload, *)
(* submit, delete, abort, get_modesolver, get_result and get_log.          *)
(*                                                                         *)
(* The external collaborators (http, upload_file, download_file,           *)
(* download_gz_file, Folder.get, the payload's validation, serialization   *)
(* and deserialization) are the environment: every call to one of them is  *)
(* recorded in the history `trace`, and its outcome        (success or the  *)
(* exception it raises) is an input chosen by the action that makes it.    *)
(***************************************************************************)
EXTENDS Integers, Sequences, FiniteSets, TLC

VARIABLES
    pc,        \* position of the caller: "idle", or inside run: "upload", "submit", "poll"
    task,      \* the caller's Task Record (self of the methods)
    status,    \* run's local variable status
    prev_status, \* run's local variable prev_status
    observed,  \* history: the statuses run has observed, in order
    logs,      \* history: the status lines run has logged, in order
    trace,     \* history: the collaborator calls made by the current (or last) top-level call
    ret        \* how the last top-level call ended

vars == <<pc, task, status, prev_status, observed, logs, trace, ret>>

----------------------------------------------------------------------------
(* Bounds *)

\* get_info requests one run may issue before the model stops following it
MaxPolls == 5

----------------------------------------------------------------------------
(* Program constants *)

None == "None"

SIMULATION_JSON == "simulation.json"
SIM_FILE_HDF5_GZ == "simulation.hdf5.gz"
MODESOLVER_API == "tidy3d/modesolver/py"
MODESOLVER_JSON == "mode_solver.json"
MODESOLVER_HDF5 == "mode_solver.hdf5"
MODESOLVER_GZ == "mode_solver.hdf5.gz"
MODESOLVER_LOG == "output/result.log"
MODESOLVER_RESULT == "output/result.hdf5"
MODESOLVER_RESULT_GZ == "output/mode_solver_data.hdf5.gz"
MODE_MONITOR_NAME == "MODE_MONITOR_NAME"

\* the tuple tested by run's while loop
Terminal == {"success", "error", "diverged", "deleted"}

\* what the service can put in a response's status field
Statuses == {"draft", "queued", "running"} \cup Terminal

\* what the service can put in a response's fileType field; None when the
\* response carries none
FileTypes == {"Gz", "Hdf5", "Json", None}

\* outcome of an http verb or of Folder.get
HttpOutcomes == {"ok", "TransportError"}

\* outcome of an Artifact Store transfer: botocore's ClientError is the
\* "not found"-class error, OtherError any exception that is no ClientError
StoreOutcomes == {"ok", "ClientError", "OtherError"}

\* outcome of a local serialization or deserialization step
LocalOutcomes == {"ok", "FileError"}

----------------------------------------------------------------------------
(* Calls to the collaborators, and the results of the methods *)

\* one call to an external collaborator: which function, the remote path,
\* file name or object it is given, the ids the call is bound to, and how it
\* ended ("ok" or the exception raised)
Ext(call, name, ids, out) ==
    [call |-> call, name |-> name, ids |-> ids, out |-> out]

\* the calls that go to the Resource Registry, Transport or the Artifact Store
Registry == {"Folder.get"}
Transport == {"http.get", "http.post", "http.put", "http.delete"}
ArtifactStore == {"upload_file", "download_file", "download_gz_file"}
Remote == Registry \cup Transport \cup ArtifactStore

\* straight-line code: of the calls written one after the other, those made,
\* i.e. up to and including the first that raises
Made(calls) ==
    LET failed == {i \in 1..Len(calls) : calls[i].out # "ok"}
    IN  IF failed = {} THEN calls
        ELSE SubSeq(calls, 1, CHOOSE i \in failed : \A j \in failed : i <= j)

\* the exception that ended the calls made, None when none raised
Raised(made) ==
    IF made # <<>> /\ made[Len(made)].out # "ok" THEN made[Len(made)].out
    ELSE None

\* a value handled by the caller: its type, the monitor descriptor attached
\* to it, and whether the symmetry expansion was applied to it
Val(type, monitor, expanded) ==
    [type |-> type, monitor |-> monitor, expanded |-> expanded]

NoneVal == Val(None, None, FALSE)

\* a call that returns normally: the collaborator calls it made, the value
\* returned, the Task Record after the call (the one returned by create and
\* get_info, self for the other methods) and the local files the call leaves
\* behind
Return(made, val, rec, fs) ==
    [trace |-> made, exc |-> None, cause |-> None, val |-> val, rec |-> rec,
     fs |-> fs]

\* a call that raises exception exc (raised "from" cause, when wrapped)
Raise(made, exc, cause, rec, fs) ==
    [trace |-> made, exc |-> exc, cause |-> cause, val |-> NoneVal, rec |-> rec,
     fs |-> fs]

\* the payload: whether the two pre-upload validations accept it, and its
\* _cached_properties["data_raw"]
ModeSolver(valid, sim_valid, data_raw) ==
    [valid |-> valid, sim_valid |-> sim_valid, data_raw |-> data_raw]

\* ModeSolverTask(**resp, mode_solver=...); every field defaults to None
ModeSolverTask(task_id, solver_id, st, file_type, mode_solver) ==
    [task_id |-> task_id, solver_id |-> solver_id, status |-> st,
     file_type |-> file_type, mode_solver |-> mode_solver]

\* a response of the service to create or get_info
Resp(task_id, solver_id, st, file_type) ==
    [refId |-> task_id, id |-> solver_id, status |-> st, fileType |-> file_type]

----------------------------------------------------------------------------
(* ModeSolverTask: the methods, each computed from self and the outcomes   *)
(* of the external calls it makes                                          *)

\* tempfile.mkstemp and os.unlink on the set of local files
mkstemp(fs, file_name) == fs \cup {file_name}

unlink(fs, file_name) == fs \ {file_name}

\* faulty variant: the temporary file is removed after the block only when
\* the block did not raise
try_unlink_on_success(fs, file_name, made) ==
    IF Raised(made) # None THEN mkstemp(fs, file_name)
    ELSE unlink(mkstemp(fs, file_name), file_name)

\* mkstemp(...); try: <the calls made> finally: os.unlink(file_name): the
\* local files after the block, whether it returned or raised
try_finally_unlink(fs, file_name, made) ==
    unlink(mkstemp(fs, file_name), file_name)

\* validate_pre_upload of the payload or of its simulation
validate_pre_upload(name, accepted) ==
    Ext("validate_pre_upload", name, <<>>,
        IF accepted THEN "ok" ELSE "ValidationError")

\* ModeSolverTask.create
create(mode_solver, folder, post, resp) ==
    LET made == Made(<<Ext("Folder.get", "Mode Solver", <<>>, folder),
                       validate_pre_upload("mode_solver", mode_solver.valid),
                       validate_pre_upload("simulation", mode_solver.sim_valid),
                       Ext("http.post", MODESOLVER_API, <<>>, post)>>)
    IN  IF Raised(made) # None
        THEN Raise(made, Raised(made), None,
                   ModeSolverTask(None, None, None, None, mode_solver), {})
        ELSE Return(made, NoneVal,
                    ModeSolverTask(resp.refId, resp.id, resp.status,
                                   resp.fileType, mode_solver), {})

\* ModeSolverTask.get_info
get_info(self, get, resp) ==
    LET made == <<Ext("http.get", "tidy3d/modesolver/py/{task_id}/{solver_id}",
                      <<self.task_id, self.solver_id>>, get)>>
    IN  IF Raised(made) # None THEN Raise(made, Raised(made), None, self, {})
        ELSE Return(made, NoneVal,
                    ModeSolverTask(resp.refId, resp.id, resp.status,
                                   resp.fileType, self.mode_solver), {})

\* faulty variant: a failure of the first block is swallowed and the second
\* block runs all the same
upload_continuing(self, ser1, up1, ser2, up2) ==
    LET first  == Made(<<Ext("to_hdf5_gz", "simulation", <<>>, ser1),
                         Ext("upload_file", SIM_FILE_HDF5_GZ, <<self.task_id>>, up1)>>)
        second == Made(<<Ext("to_hdf5_gz", "mode_solver", <<>>, ser2),
                         Ext("upload_file", MODESOLVER_GZ, <<self.solver_id>>, up2)>>)
        fs1    == try_finally_unlink({}, "tmp1", first)
        fs2    == try_finally_unlink(fs1, "tmp2", second)
    IN  IF Raised(second) # None
        THEN Raise(first \o second, Raised(second), None, self, fs2)
        ELSE Return(first \o second, NoneVal, self, fs2)

\* ModeSolverTask.upload: ser1/ser2 are the outcomes of the two to_hdf5_gz
\* calls, up1/up2 those of the two upload_file calls
upload(self, ser1, up1, ser2, up2) ==
    LET first  == Made(<<Ext("to_hdf5_gz", "simulation", <<>>, ser1),
                         Ext("upload_file", SIM_FILE_HDF5_GZ, <<self.task_id>>, up1)>>)
        second == Made(<<Ext("to_hdf5_gz", "mode_solver", <<>>, ser2),
                         Ext("upload_file", MODESOLVER_GZ, <<self.solver_id>>, up2)>>)
        fs1    == try_finally_unlink({}, "tmp1", first)
        fs2    == try_finally_unlink(fs1, "tmp2", second)
    IN  IF Raised(first) # None THEN Raise(first, Raised(first), None, self, fs1)
        ELSE IF Raised(second) # None
             THEN Raise(first \o second, Raised(second), None, self, fs2)
        ELSE Return(first \o second, NoneVal, self, fs2)

\* faulty variant: submit records the new status in the Task Record
submit_setting_status(self, post) ==
    LET made == <<Ext("http.post", "tidy3d/modesolver/py/{task_id}/{solver_id}/run",
                      <<self.task_id, self.solver_id>>, post)>>
    IN  IF Raised(made) # None THEN Raise(made, Raised(made), None, self, {})
        ELSE Return(made, NoneVal, [self EXCEPT !.status = "queued"], {})

\* ModeSolverTask.submit
submit(self, post) ==
    LET made == <<Ext("http.post", "tidy3d/modesolver/py/{task_id}/{solver_id}/run",
                      <<self.task_id, self.solver_id>>, post)>>
    IN  IF Raised(made) # None THEN Raise(made, Raised(made), None, self, {})
        ELSE Return(made, NoneVal, self, {})

\* faulty variant: the parent task is deleted before the solver
delete_parent_first(self, del1, del2) ==
    LET made == Made(<<Ext("http.delete", "tidy3d/tasks/{task_id}",
                           <<self.task_id>>, del1),
                       Ext("http.delete", "tidy3d/modesolver/py/{task_id}/{solver_id}",
                           <<self.task_id, self.solver_id>>, del2)>>)
    IN  IF Raised(made) # None THEN Raise(made, Raised(made), None, self, {})
        ELSE Return(made, NoneVal, self, {})

\* ModeSolverTask.delete
delete(self, del1, del2) ==
    LET made == Made(<<Ext("http.delete", "tidy3d/modesolver/py/{task_id}/{solver_id}",
                           <<self.task_id, self.solver_id>>, del1),
                       Ext("http.delete", "tidy3d/tasks/{task_id}",
                           <<self.task_id>>, del2)>>)
    IN  IF Raised(made) # None THEN Raise(made, Raised(made), None, self, {})
        ELSE Return(made, NoneVal, self, {})

\* faulty variant: a failed abort request is sent a second time
abort_retrying(self, put) ==
    LET once == <<Ext("http.put", "tidy3d/tasks/abort", <<self.solver_id>>, put)>>
        made == IF put # "ok" THEN once \o once ELSE once
    IN  IF Raised(made) # None THEN Raise(made, Raised(made), None, self, {})
        ELSE Return(made, Val("Response", None, FALSE), self, {})

\* ModeSolverTask.abort
abort(self, put) ==
    LET made == <<Ext("http.put", "tidy3d/tasks/abort", <<self.solver_id>>, put)>>
    IN  IF Raised(made) # None THEN Raise(made, Raised(made), None, self, {})
        ELSE Return(made, Val("Response", None, FALSE), self, {})

\* faulty variant: the elif for "Hdf5" is missing
branch_without_hdf5(file_type) ==
    IF file_type = "Gz" THEN "Gz" ELSE "other"

\* the if / elif / else of get_modesolver on self.file_type
branch(file_type) ==
    IF file_type = "Gz" THEN "Gz"
    ELSE IF file_type = "Hdf5" THEN "Hdf5"
    ELSE "other"

\* ModeSolverTask.get_modesolver: dl1/dl2 are the outcomes of the download_file
\* calls, parse1/parse2 those of the deserializations that follow them, merge
\* that of ModeSolver.parse_obj on the merged dictionary, write that of
\* mode_solver.to_file(to_file)
get_modesolver(self, dl1, parse1, dl2, parse2, merge, write) ==
    LET sid    == <<self.solver_id>>
        first  ==
            IF branch(self.file_type) = "Gz"
            THEN Made(<<Ext("download_file", MODESOLVER_GZ, sid, dl1),
                        Ext("ModeSolver.from_hdf5_gz", "tmp1", <<>>, parse1)>>)
            ELSE IF branch(self.file_type) = "Hdf5"
            THEN Made(<<Ext("download_file", MODESOLVER_HDF5, sid, dl1),
                        Ext("ModeSolver.from_hdf5", "tmp1", <<>>, parse1)>>)
            ELSE Made(<<Ext("download_file", MODESOLVER_JSON, sid, dl1),
                        Ext("ModeSolver.dict_from_json", "tmp1", <<>>, parse1)>>)
        fs1    == try_finally_unlink({}, "tmp1", first)
        second ==
            IF branch(self.file_type) \in {"Gz", "Hdf5"} THEN <<>>
            ELSE Made(<<Ext("download_file", SIMULATION_JSON, <<self.task_id>>, dl2),
                        Ext("Simulation.from_json", "sim_file", <<>>, parse2),
                        Ext("ModeSolver.parse_obj", "mode_solver_dict", <<>>, merge)>>)
        fs2    == IF second # <<>> /\ second[1].out = "ok" THEN fs1 \cup {"sim_file"}
                  ELSE fs1
        store  == <<Ext("ModeSolver.to_file", "to_file", <<>>, write)>>
    IN  IF Raised(first) # None THEN Raise(first, Raised(first), None, self, fs1)
        ELSE IF Raised(second) # None
             THEN Raise(first \o second, Raised(second), None, self, fs2)
        ELSE IF Raised(store) # None
             THEN Raise(first \o second \o store, Raised(store), None, self, fs2)
        ELSE Return(first \o second \o store, Val("ModeSolver", None, FALSE), self,
                    fs2 \cup {"to_file"})

\* ModeSolverData.from_hdf5(to_file): the data as the service stored it
from_hdf5 == Val("ModeSolverData", "stored", FALSE)

\* data.copy(update={"monitor": ...to_mode_solver_monitor(name=MODE_MONITOR_NAME)})
copy_update_monitor(data) == [data EXCEPT !.monitor = MODE_MONITOR_NAME]

\* the payload's data property: the symmetry expansion of data_raw
mode_solver_data(mode_solver) == [mode_solver.data_raw EXCEPT !.expanded = TRUE]

\* faulty variant: the first try block catches every exception
first_try_catches_any(exc) == TRUE

\* the except clause of get_result's first try block: what it catches
first_try_catches(exc) == exc = "ClientError"

\* faulty variant: the failure of the fallback download is re-raised as it is
fallback_failure_reraised(e) == [exc |-> e, cause |-> None]

\* the except clause of the fallback download: raise WebError(...) from e
fallback_failure(e) == [exc |-> "WebError", cause |-> e]

\* get_result's two try blocks: gz is the outcome of download_gz_file, hdf5
\* that of the fallback download_file; the calls made, and the exception
\* that leaves get_result (None when a file was downloaded)
download_result(self, gz, hdf5) ==
    LET sid    == <<self.solver_id>>
        first  == <<Ext("download_gz_file", MODESOLVER_RESULT_GZ, sid, gz)>>
        \* file after the first try block: the path download_gz_file
        \* returns when it succeeded, still None when its exception was caught
        file   == IF gz = "ok" THEN "to_file" ELSE None
        second == <<Ext("download_file", MODESOLVER_RESULT, sid, hdf5)>>
    IN  IF gz # "ok" /\ ~first_try_catches(gz)
        THEN [made |-> first, exc |-> gz, cause |-> None]
        ELSE IF file # None
        THEN [made |-> first, exc |-> None, cause |-> None]
        ELSE IF Raised(second) # None
        THEN [made |-> first \o second,
              exc |-> fallback_failure(Raised(second)).exc,
              cause |-> fallback_failure(Raised(second)).cause]
        ELSE [made |-> first \o second, exc |-> None, cause |-> None]

\* faulty variant: get_result refuses a Task Record whose status is error
get_result_refusing_error(self, gz, hdf5, parse) ==
    LET dl     == download_result(self, gz, hdf5)
        load   == <<Ext("ModeSolverData.from_hdf5", "to_file", <<>>, parse)>>
        cached == [self EXCEPT !.mode_solver.data_raw = copy_update_monitor(from_hdf5)]
    IN  IF self.status = "error" THEN Raise(<<>>, "WebError", None, self, {})
        ELSE IF dl.exc # None THEN Raise(dl.made, dl.exc, dl.cause, self, {})
        ELSE IF Raised(load) # None
             THEN Raise(dl.made \o load, Raised(load), None, self, {"to_file"})
        ELSE Return(dl.made \o load, mode_solver_data(cached.mode_solver), cached,
                    {"to_file"})

\* faulty variant: get_result answers from the payload's cache when it is filled
get_result_from_cache(self, gz, hdf5, parse) ==
    LET dl     == download_result(self, gz, hdf5)
        load   == <<Ext("ModeSolverData.from_hdf5", "to_file", <<>>, parse)>>
        cached == [self EXCEPT !.mode_solver.data_raw = copy_update_monitor(from_hdf5)]
    IN  IF self.mode_solver.data_raw # NoneVal
        THEN Return(<<>>, mode_solver_data(self.mode_solver), self, {})
        ELSE IF dl.exc # None THEN Raise(dl.made, dl.exc, dl.cause, self, {})
        ELSE IF Raised(load) # None
             THEN Raise(dl.made \o load, Raised(load), None, self, {"to_file"})
        ELSE Return(dl.made \o load, mode_solver_data(cached.mode_solver), cached,
                    {"to_file"})

\* ModeSolverTask.get_result: parse is the outcome of ModeSolverData.from_hdf5
get_result(self, gz, hdf5, parse) ==
    LET dl     == download_result(self, gz, hdf5)
        load   == <<Ext("ModeSolverData.from_hdf5", "to_file", <<>>, parse)>>
        data   == copy_update_monitor(from_hdf5)
        cached == [self EXCEPT !.mode_solver.data_raw = data]
    IN  IF dl.exc # None THEN Raise(dl.made, dl.exc, dl.cause, self, {})
        ELSE IF Raised(load) # None
             THEN Raise(dl.made \o load, Raised(load), None, self, {"to_file"})
        ELSE Return(dl.made \o load, mode_solver_data(cached.mode_solver), cached,
                    {"to_file"})

\* ModeSolverTask.get_log
get_log(self, dl) ==
    LET made == <<Ext("download_file", MODESOLVER_LOG, <<self.solver_id>>, dl)>>
    IN  IF Raised(made) # None THEN Raise(made, Raised(made), None, self, {})
        ELSE Return(made, Val("Path", None, FALSE), self, {"to_file"})

----------------------------------------------------------------------------
(* run: the pieces of its body. Lines 84-103 (the log level, the console   *)
(* and the reduced copy of the payload) call no collaborator and are not   *)
(* modelled: the payload run works on is the one the Task Record holds.    *)

\* faulty variant: the exceptions of upload and submit are swallowed
run_next_swallowing(step, exc) ==
    IF step = "create" THEN (IF exc # None THEN "idle" ELSE "upload")
    ELSE IF step = "upload" THEN "submit"
    ELSE "poll"

\* the order of run's remote steps: the position after `step` ended with
\* exception exc (None when it returned); an exception leaves run
run_next(step, exc) ==
    IF exc # None THEN "idle"
    ELSE IF step = "create" THEN "upload"
    ELSE IF step = "upload" THEN "submit"
    ELSE "poll"

\* faulty variant: "deleted" left out of the terminal tuple of the loop condition
run_continue_without_deleted(st) == st \notin {"success", "error", "diverged"}

\* faulty variant: "error" left out of the terminal tuple of the loop condition
run_continue_past_error(st) == st \notin {"success", "diverged", "deleted"}

\* the condition of run's while loop
run_continue(st) == st \notin Terminal

\* faulty variant: the status line is logged by every iteration
run_log_every_tick(st, prev, lines) ==
    [logs |-> Append(lines, st), prev_status |-> st]

\* the body of the while loop up to the sleep: the status lines logged so
\* far and prev_status, after an iteration entered with status st
run_log(st, prev, lines) ==
    IF st # prev THEN [logs |-> Append(lines, st), prev_status |-> st]
    ELSE [logs |-> lines, prev_status |-> prev]

\* faulty variant: the status line after the loop is missing
run_end_silent(self, st, gz, hdf5, parse) ==
    IF st = "error"
    THEN [res |-> Raise(<<>>, "WebError", None, self, {}), log |-> <<>>]
    ELSE IF st # "success"
    THEN [res |-> Return(<<>>, NoneVal, self, {}), log |-> <<>>]
    ELSE [res |-> get_result(self, gz, hdf5, parse), log |-> <<>>]

\* faulty variant: the "no result" outcome is written to the payload's cache
run_end_caching_no_result(self, st, gz, hdf5, parse) ==
    IF st = "error"
    THEN [res |-> Raise(<<>>, "WebError", None, self, {}), log |-> <<>>]
    ELSE IF st # "success"
    THEN [res |-> Return(<<>>, NoneVal,
                         [self EXCEPT !.mode_solver.data_raw =
                                          Val("NoResult", None, FALSE)], {}),
          log |-> <<st>>]
    ELSE [res |-> get_result(self, gz, hdf5, parse), log |-> <<st>>]

\* faulty variant: every terminal status but success raises
run_end_raising_on_no_result(self, st, gz, hdf5, parse) ==
    IF st # "success"
    THEN [res |-> Raise(<<>>, "WebError", None, self, {}), log |-> <<>>]
    ELSE [res |-> get_result(self, gz, hdf5, parse), log |-> <<st>>]

\* faulty variant: the early return for the statuses other than success is missing
run_end_always_retrieving(self, st, gz, hdf5, parse) ==
    IF st = "error"
    THEN [res |-> Raise(<<>>, "WebError", None, self, {}), log |-> <<>>]
    ELSE [res |-> get_result(self, gz, hdf5, parse), log |-> <<st>>]

\* faulty variant: the test for "error" after the loop is missing, so that error is
\* handled like the other non-success statuses
run_end_without_error_test(self, st, gz, hdf5, parse) ==
    IF st # "success"
    THEN [res |-> Return(<<>>, NoneVal, self, {}), log |-> <<st>>]
    ELSE [res |-> get_result(self, gz, hdf5, parse), log |-> <<st>>]

\* run after the while loop: the result of the call and the status line
\* logged on the way
run_end(self, st, gz, hdf5, parse) ==
    IF st = "error"
    THEN [res |-> Raise(<<>>, "WebError", None, self, {}), log |-> <<>>]
    ELSE IF st # "success"
    THEN [res |-> Return(<<>>, NoneVal, self, {}), log |-> <<st>>]
    ELSE [res |-> get_result(self, gz, hdf5, parse), log |-> <<st>>]

----------------------------------------------------------------------------
(* State machine *)

\* how a top-level call ended
Ended(op, r) ==
    [op |-> op, exc |-> r.exc, cause |-> r.cause, val |-> r.val, fs |-> r.fs]

\* a top-level call that has not ended yet
Started(op) ==
    [op |-> op, exc |-> None, cause |-> None, val |-> NoneVal, fs |-> {}]

\* the service's responses to get_info: the ids it assigned, and any status
\* and any file type
Responses ==
    {Resp("t1", "s1", st, ft) : st \in Statuses, ft \in FileTypes}

\* the service's responses to create: it assigns the ids, reports any status
\* and echoes the encoding the request declares ("fileType": "Gz")
CreateResponses ==
    {Resp("t1", "s1", st, "Gz") : st \in Statuses}

\* The outcome of an external call that is never made is not an input:
\* it is fixed to "ok", so that each behaviour of a method is drawn once.
\* In a straight sequence of calls nothing is called after the first failure.
FirstFailureOnly(outcomes) ==
    \A i \in 1..Len(outcomes) :
        outcomes[i] # "ok" => \A j \in (i + 1)..Len(outcomes) : outcomes[j] = "ok"

\* a request that fails, or is never made, has no response
NoResponse(outcomes, resp) ==
    (\E i \in 1..Len(outcomes) : outcomes[i] # "ok")
        => resp.status = "draft" /\ resp.fileType = "Gz"

\* the service holds no resource named None: a request bound to an unset id
\* does not succeed
Served(made) ==
    \A i \in 1..Len(made) :
        (/\ made[i].call \in Remote
         /\ \E k \in 1..Len(made[i].ids) : made[i].ids[k] = None)
            => made[i].out # "ok"

NumPolls == Cardinality({i \in 1..Len(trace) : trace[i].call = "http.get"})

Init ==
    /\ pc = "idle"
    /\ task \in {ModeSolverTask(None, None, None, None, ModeSolver(v, sv, NoneVal)) :
                    v \in BOOLEAN, sv \in BOOLEAN}
    /\ status = None
    /\ prev_status = None
    /\ observed = <<>>
    /\ logs = <<>>
    /\ trace = <<>>
    /\ ret = Started(None)

\* run's locals are dead outside run
NoLocals ==
    /\ status' = None
    /\ prev_status' = None
    /\ observed' = <<>>
    /\ logs' = <<>>

\* The inputs of each method: the outcomes of the external calls it makes
\* and the responses it receives, each behaviour drawn once
CreateInputs ==
    {i \in HttpOutcomes \X HttpOutcomes \X CreateResponses :
        FirstFailureOnly(<<i[1], i[2]>>) /\ NoResponse(<<i[1], i[2]>>, i[3])}

GetInfoInputs ==
    {i \in HttpOutcomes \X Responses : NoResponse(<<i[1]>>, i[2])}

UploadInputs ==
    {i \in LocalOutcomes \X StoreOutcomes \X LocalOutcomes \X StoreOutcomes :
        FirstFailureOnly(i)}

DeleteInputs == {i \in HttpOutcomes \X HttpOutcomes : FirstFailureOnly(i)}

GetModesolverInputs ==
    {i \in StoreOutcomes \X LocalOutcomes \X StoreOutcomes \X LocalOutcomes
           \X LocalOutcomes \X LocalOutcomes : FirstFailureOnly(i)}

GetResultInputs == StoreOutcomes \X StoreOutcomes \X LocalOutcomes

\* run, lines 105-109: task = ModeSolverTask.create(...)
RunCreate ==
    /\ pc = "idle"
    /\ \E i \in CreateInputs :
         LET r == create(task.mode_solver, i[1], i[2], i[3])
         IN  /\ pc' = run_next("create", r.exc)
             /\ task' = IF r.exc = None THEN r.rec ELSE task
             /\ trace' = r.trace
             /\ ret' = IF r.exc = None THEN Started("run") ELSE Ended("run", r)
    /\ NoLocals

\* run, line 110: task.upload(...)
RunUpload ==
    /\ pc = "upload"
    /\ \E i \in UploadInputs :
         LET r == upload(task, i[1], i[2], i[3], i[4])
         IN  /\ pc' = run_next("upload", r.exc)
             /\ trace' = trace \o r.trace
             /\ ret' = IF r.exc = None THEN ret ELSE Ended("run", r)
    /\ UNCHANGED <<task, status, prev_status, observed, logs>>

\* run, lines 111-115: task.submit(), then the locals of the loop
RunSubmit ==
    /\ pc = "submit"
    /\ \E post \in HttpOutcomes :
         LET r == submit(task, post)
         IN  /\ pc' = run_next("submit", r.exc)
             /\ trace' = trace \o r.trace
             /\ ret' = IF r.exc = None THEN ret ELSE Ended("run", r)
             /\ prev_status' = IF r.exc = None THEN "draft" ELSE prev_status
             /\ status' = IF r.exc = None THEN task.status ELSE status
             /\ observed' = IF r.exc = None THEN <<task.status>> ELSE observed
    /\ UNCHANGED <<task, logs>>

\* run, lines 116-123: one iteration of the while loop
RunPoll ==
    /\ pc = "poll"
    /\ run_continue(status)
    /\ NumPolls < MaxPolls
    /\ \E i \in GetInfoInputs :
         LET l == run_log(status, prev_status, logs)
             r == get_info(task, i[1], i[2])
         IN  /\ logs' = l.logs
             /\ prev_status' = l.prev_status
             /\ trace' = trace \o r.trace
             /\ pc' = IF r.exc = None THEN "poll" ELSE "idle"
             /\ ret' = IF r.exc = None THEN ret ELSE Ended("run", r)
             /\ status' = IF r.exc = None THEN r.rec.status ELSE status
             /\ observed' = IF r.exc = None THEN Append(observed, r.rec.status)
                            ELSE observed
    /\ UNCHANGED task

\* run, lines 125-138: the loop has ended
RunEnd ==
    /\ pc = "poll"
    /\ ~run_continue(status)
    /\ \E i \in GetResultInputs :
         LET e == run_end(task, status, i[1], i[2], i[3])
         IN  /\ logs' = logs \o e.log
             /\ trace' = trace \o e.res.trace
             /\ task' = e.res.rec
             /\ ret' = Ended("run", e.res)
    /\ pc' = "idle"
    /\ UNCHANGED <<status, prev_status, observed>>

\* a method called directly by the caller, who keeps the Task Record it
\* returns or leaves
Call(op, r) ==
    /\ pc = "idle"
    /\ Served(r.trace)
    /\ pc' = "idle"
    /\ task' = r.rec
    /\ trace' = r.trace
    /\ ret' = Ended(op, r)
    /\ NoLocals

\* a create that raises returns no record: the caller keeps the one it has
CallCreate ==
    \E i \in CreateInputs :
        LET r == create(task.mode_solver, i[1], i[2], i[3])
        IN  Call("create", IF r.exc = None THEN r ELSE [r EXCEPT !.rec = task])

CallGetInfo ==
    \E i \in GetInfoInputs : Call("get_info", get_info(task, i[1], i[2]))

CallUpload ==
    \E i \in UploadInputs : Call("upload", upload(task, i[1], i[2], i[3], i[4]))

CallSubmit ==
    \E post \in HttpOutcomes : Call("submit", submit(task, post))

CallDelete ==
    \E i \in DeleteInputs : Call("delete", delete(task, i[1], i[2]))

CallAbort ==
    \E put \in HttpOutcomes : Call("abort", abort(task, put))

CallGetModesolver ==
    \E i \in GetModesolverInputs :
        Call("get_modesolver", get_modesolver(task, i[1], i[2], i[3], i[4], i[5], i[6]))

CallGetResult ==
    \E i \in GetResultInputs :
        Call("get_result", get_result(task, i[1], i[2], i[3]))

CallGetLog ==
    \E dl \in StoreOutcomes : Call("get_log", get_log(task, dl))

Next ==
    \/ RunCreate
    \/ RunUpload
    \/ RunSubmit
    \/ RunPoll
    \/ RunEnd
    \/ CallCreate
    \/ CallGetInfo
    \/ CallUpload
    \/ CallSubmit
    \/ CallDelete
    \/ CallAbort
    \/ CallGetModesolver
    \/ CallGetResult
    \/ CallGetLog

Spec == Init /\ [][Next]_vars

\* run is sequential code: once called, its next statement is executed. The
\* service is under no obligation: a poll may return any status, for ever.
RunStep == RunUpload \/ RunSubmit \/ RunPoll \/ RunEnd

LiveSpec == Spec /\ WF_vars(RunStep)

----------------------------------------------------------------------------
(* Properties *)

\* the last top-level call is run, and it has returned or raised
RunEnded == pc = "idle" /\ ret.op = "run"

\* the first terminal status run observed, None when it observed none
FirstTerminal ==
    LET seen == {i \in 1..Len(observed) : observed[i] \in Terminal}
    IN  IF seen = {} THEN None
        ELSE observed[CHOOSE i \in seen : \A j \in seen : i <= j]

\* the result artifact downloads (compressed and uncompressed) in the trace
ResultDownloads ==
    {i \in 1..Len(trace) :
        /\ trace[i].call \in {"download_gz_file", "download_file"}
        /\ trace[i].name \in {MODESOLVER_RESULT_GZ, MODESOLVER_RESULT}}

\* C1: in run, a get_info request is issued only while the most recently
\* observed status (at first the status of the create response) is not
\* terminal: when a terminal status is the i-th status observed, it is the last
\* one observed and exactly i - 1 get_info requests were issued by this run,
\* up to and after its end.
C1_PollingStopsAtTerminal ==
    ret.op = "run" =>
        \A i \in 1..Len(observed) :
            observed[i] \in Terminal => i = Len(observed) /\ NumPolls = i - 1

\* C1 witness: run has ended after a sequence that skips the intermediate
\* statuses, having polled once.
C1_Witness ==
    RunEnded /\ observed = <<"draft", "deleted">> /\ NumPolls = 1

\* C2: in run, when the first terminal status observed is error, the call
\* raises WebError and no result artifact download is attempted.
C2_ErrorRaisesWithoutDownload ==
    (RunEnded /\ FirstTerminal = "error") =>
        ret.exc = "WebError" /\ ResultDownloads = {}

\* C2 witness: run has ended after polling into error.
C2_Witness ==
    RunEnded /\ observed = <<"draft", "running", "error">> /\ ret.exc = "WebError"

\* the last top-level call is get_result, called directly
GetResultEnded == pc = "idle" /\ ret.op = "get_result"

\* C3 as claimed: get_result on a Task Record whose status is error raises
\* and attempts no download.
C3_ErrorRecordRaisesWithoutDownload ==
    (GetResultEnded /\ task.status = "error") =>
        ret.exc # None /\ ResultDownloads = {}

\* C3 amended: get_result does not read status. On a Task Record whose status
\* is error it attempts the compressed result download first, and it raises
\* WebError exactly when that attempt ended in a ClientError and the
\* uncompressed download failed too.
C3_ErrorRecordStillDownloads ==
    (GetResultEnded /\ task.status = "error") =>
        /\ trace # <<>>
        /\ trace[1].call = "download_gz_file"
        /\ trace[1].name = MODESOLVER_RESULT_GZ
        /\ ret.exc = "WebError" <=>
              /\ trace[1].out = "ClientError"
              /\ Len(trace) = 2
              /\ trace[2].name = MODESOLVER_RESULT
              /\ trace[2].out # "ok"

\* C3 witness: get_result on a record whose status is error downloaded the
\* compressed result and returned data.
C3_Witness ==
    /\ GetResultEnded
    /\ task.status = "error"
    /\ ret.exc = None
    /\ ret.val.type = "ModeSolverData"
    /\ trace[1].out = "ok"

\* C4: in run, when the first terminal status observed is diverged or
\* deleted, the call returns None, does not raise, and attempts no result
\* download.
C4_NoResultSentinel ==
    (RunEnded /\ FirstTerminal \in {"diverged", "deleted"}) =>
        ret.exc = None /\ ret.val = NoneVal /\ ResultDownloads = {}

\* C4 witness: run has ended after polling into diverged.
C4_Witness ==
    RunEnded /\ observed = <<"draft", "queued", "diverged">> /\ ret.val = NoneVal

\* the calls of get_result's first statement in the trace
GetResultCalls ==
    {i \in 1..Len(trace) : trace[i].call = "download_gz_file"}

\* C5: in run, get_result is invoked if and only if the first terminal status
\* observed is success, then exactly once (after the loop), and what run
\* returns is what get_result returns: the deserialized result, carrying the
\* local monitor descriptor, that get_result cached in the payload.
C5_ResultOnlyOnSuccess ==
    ret.op = "run" =>
        /\ Cardinality(GetResultCalls) =
              IF RunEnded /\ FirstTerminal = "success" THEN 1 ELSE 0
        /\ (RunEnded /\ FirstTerminal = "success" /\ ret.exc = None) =>
              /\ ret.val.type = "ModeSolverData"
              /\ ret.val.monitor = MODE_MONITOR_NAME
              /\ ret.val = mode_solver_data(task.mode_solver)

\* C5 witness: the sequence draft, queued, running, running, success, after
\* which run returned the result.
C5_Witness ==
    /\ RunEnded
    /\ observed = <<"draft", "queued", "running", "running", "success">>
    /\ ret.exc = None
    /\ ret.val.monitor = MODE_MONITOR_NAME

\* C6: in get_result, the compressed result is attempted first, and the
\* uncompressed result is attempted only right after a compressed attempt
\* that failed with a ClientError (the "not found"-class error): after a
\* success or any other failure of the first attempt there is no second
\* download.
C6_FallbackOnlyAfterClientError ==
    \A i \in ResultDownloads :
        trace[i].name = MODESOLVER_RESULT =>
            /\ i > 1
            /\ trace[i - 1].call = "download_gz_file"
            /\ trace[i - 1].name = MODESOLVER_RESULT_GZ
            /\ trace[i - 1].out = "ClientError"

\* C6 witness: the compressed attempt failed with a ClientError and the
\* uncompressed result was downloaded.
C6_Witness ==
    /\ GetResultEnded
    /\ Len(trace) >= 2
    /\ trace[1].out = "ClientError"
    /\ trace[2].name = MODESOLVER_RESULT
    /\ trace[2].out = "ok"

\* both result downloads were attempted in trace t and both failed
BothDownloadsFailed(t) ==
    \E i \in 1..Len(t) :
        /\ i > 1
        /\ t[i].name = MODESOLVER_RESULT /\ t[i].out # "ok"
        /\ t[i - 1].name = MODESOLVER_RESULT_GZ /\ t[i - 1].out # "ok"

\* C7: whenever the compressed and the uncompressed result download both
\* fail, get_result raises a WebError whose cause is the failure of the
\* second download, nothing is deserialized and the payload (its cache
\* included) is left as it was.
C7_BothFailedRaisesWrapped ==
    [][BothDownloadsFailed(trace') =>
          /\ ret'.exc = "WebError"
          /\ ret'.cause = trace'[Len(trace')].out
          /\ ret'.cause # None
          /\ \A i \in 1..Len(trace') : trace'[i].call # "ModeSolverData.from_hdf5"
          /\ task'.mode_solver = task.mode_solver]_vars

\* C7 witness: get_result raised a WebError caused by the failure of the
\* fallback download.
C7_Witness ==
    /\ GetResultEnded
    /\ BothDownloadsFailed(trace)
    /\ ret.exc = "WebError"
    /\ ret.cause = "OtherError"

\* C8 as claimed: when the payload's validation fails in create, no request
\* has been sent to the Resource Registry or to Transport.
C8_ValidationBeforeNetwork ==
    (ret.op \in {"create", "run"} /\ ret.exc = "ValidationError") =>
        \A i \in 1..Len(trace) : trace[i].call \notin Remote

\* the methods that interact with the server
ServerMethods ==
    {"get_info", "upload", "submit", "delete", "abort", "get_modesolver",
     "get_result", "get_log"}

\* C9 as claimed: a method that interacts with the server, called on a Task
\* Record whose task_id or solver_id is unset, fails before it issues any
\* Transport or Artifact Store request. (get_info is told by the ids of its
\* request, the caller keeping the record it returns.)
C9_UnsetIdsFailFast ==
    (pc = "idle" /\ ret.op \in ServerMethods) =>
        /\ \A i \in 1..Len(trace) :
              trace[i].call \in Remote =>
                  \A k \in 1..Len(trace[i].ids) : trace[i].ids[k] # None
        /\ (ret.op # "get_info" /\ (task.task_id = None \/ task.solver_id = None)) =>
              ret.exc # None

\* the positions in the trace of the calls of one function with one name
Calls(call, name) ==
    {i \in 1..Len(trace) : trace[i].call = call /\ trace[i].name = name}

SubmitCalls == Calls("http.post", "tidy3d/modesolver/py/{task_id}/{solver_id}/run")

\* C10: in run the remote steps are issued in the order create, upload,
\* submit, polling: the create request succeeded before anything is
\* uploaded, both uploads succeeded before the submit request, the submit
\* request succeeded before any get_info, and a failure inside upload or of
\* submit is the last call run makes.
C10_RunOrder ==
    ret.op = "run" =>
        /\ \A i \in 1..Len(trace) :
              trace[i].call \in {"to_hdf5_gz", "upload_file"} =>
                  \E j \in Calls("http.post", MODESOLVER_API) :
                      j < i /\ trace[j].out = "ok"
        /\ \A i \in SubmitCalls :
              /\ \E j \in Calls("upload_file", SIM_FILE_HDF5_GZ) :
                    j < i /\ trace[j].out = "ok"
              /\ \E j \in Calls("upload_file", MODESOLVER_GZ) :
                    j < i /\ trace[j].out = "ok"
        /\ \A i \in 1..Len(trace) :
              trace[i].call = "http.get" =>
                  \E j \in SubmitCalls : j < i /\ trace[j].out = "ok"
        /\ \A i \in 1..Len(trace) :
              (/\ trace[i].out # "ok"
               /\ \/ trace[i].call \in {"to_hdf5_gz", "upload_file"}
                  \/ i \in SubmitCalls) => i = Len(trace)

\* C10 witness: run is polling, after create, both uploads and submit.
C10_Witness ==
    /\ ret.op = "run"
    /\ pc = "poll"
    /\ NumPolls = 2
    /\ Len(trace) = 11

\* the i-th status run observed differs from the one before it, the first
\* one from draft
Changed(i) == observed[i] # (IF i = 1 THEN "draft" ELSE observed[i - 1])

RECURSIVE TransitionsUpTo(_)
\* the statuses run changed into among the first n it observed, in order
TransitionsUpTo(n) ==
    IF n = 0 THEN <<>>
    ELSE IF Changed(n) THEN Append(TransitionsUpTo(n - 1), observed[n])
    ELSE TransitionsUpTo(n - 1)

\* the statuses run changed into, in order
Transitions == TransitionsUpTo(Len(observed))

\* C11: in run a status line is logged at most once per distinct transition
\* and never once per poll: the lines logged are, in order, a prefix of the
\* statuses run changed into, so that consecutive polls returning the same
\* status add no line after the one of the change.
C11_OneLinePerTransition ==
    ret.op = "run" =>
        /\ Len(logs) <= Len(Transitions)
        /\ \A i \in 1..Len(logs) : logs[i] = Transitions[i]

\* C11 witness: five polls in a row returned running, and one line was
\* logged for running.
C11_Witness ==
    /\ ret.op = "run"
    /\ observed = <<"draft", "running", "running", "running", "running", "running">>
    /\ NumPolls = 5
    /\ logs = <<"running">>

\* C12 as claimed: every observed status change, the one into the terminal
\* status included, has its status line once run has ended.
C12_EveryChangeLogged ==
    (RunEnded /\ observed # <<>>) => logs = Transitions

\* C12 amended: once run has ended, every observed status change has its
\* status line, except the change into error: on error run raises WebError
\* without logging the status.
C12_EveryChangeButErrorLogged ==
    (RunEnded /\ observed # <<>>) =>
        logs = IF observed[Len(observed)] = "error"
               THEN SubSeq(Transitions, 1, Len(Transitions) - 1)
               ELSE Transitions

\* C12 witness: run has ended after the changes into queued, running and
\* success, each with its line.
C12_Witness ==
    /\ RunEnded
    /\ observed = <<"draft", "queued", "running", "success">>
    /\ logs = <<"queued", "running", "success">>

\* the names mkstemp gives out
TempFiles == {"tmp1", "tmp2"}

\* C13: no temporary file created by upload or get_modesolver is left when
\* the call has ended (called directly, or upload called by run), whether it
\* returned, a serialization or deserialization failed, or a transfer failed.
C13_NoTempFileLeft ==
    (pc = "idle" /\ ret.op \in {"upload", "get_modesolver", "run"}) =>
        ret.fs \cap TempFiles = {}

\* C13 witness: upload has raised the failure of the transfer of its second
\* artifact, after both temporary files were written, and neither is left.
C13_Witness ==
    /\ pc = "idle"
    /\ ret.op = "upload"
    /\ ret.exc = "OtherError"
    /\ Len(trace) = 4
    /\ trace[3] = Ext("to_hdf5_gz", "mode_solver", <<>>, "ok")
    /\ trace[4].call = "upload_file" /\ trace[4].out = "OtherError"
    /\ ret.fs \cap TempFiles = {}

GetModesolverEnded == pc = "idle" /\ ret.op = "get_modesolver"

\* the downloads in the history, each as the remote name and the ids it is
\* bound to
Downloads ==
    LET IsDownload(c) == c.call \in {"download_file", "download_gz_file"}
        dls == SelectSeq(trace, IsDownload)
    IN  [i \in 1..Len(dls) |-> <<dls[i].name, dls[i].ids>>]

\* the downloads the claim gives for each file_type
ClaimedDownloads ==
    IF task.file_type = "Gz" THEN <<<<MODESOLVER_GZ, <<task.solver_id>>>>>>
    ELSE IF task.file_type = "Hdf5" THEN <<<<MODESOLVER_HDF5, <<task.solver_id>>>>>>
    ELSE <<<<MODESOLVER_JSON, <<task.solver_id>>>>,
           <<SIMULATION_JSON, <<task.task_id>>>>>>

\* the position in the history of the first call of function `call`, 0 when
\* there is none
FirstCall(call) ==
    LET at == {i \in 1..Len(trace) : trace[i].call = call}
    IN  IF at = {} THEN 0 ELSE CHOOSE i \in at : \A j \in at : i <= j

\* C14: get_modesolver downloads what file_type alone selects: one
\* compressed payload bound to solver_id for Gz, one uncompressed payload
\* bound to solver_id for Hdf5, and for any other value the solver description
\* bound to solver_id then the simulation bound to task_id, both downloaded
\* before the merged dictionary is deserialized. A call that raises has made
\* a non-empty prefix of these downloads; a call that returns has made all of
\* them and has, as its last step, written the payload to to_file.
C14_BranchOnFileType ==
    GetModesolverEnded =>
        /\ Downloads # <<>>
        /\ Len(Downloads) <= Len(ClaimedDownloads)
        /\ \A i \in 1..Len(Downloads) : Downloads[i] = ClaimedDownloads[i]
        /\ FirstCall("ModeSolver.parse_obj") # 0 =>
              /\ task.file_type \notin {"Gz", "Hdf5"}
              /\ Len(Downloads) = 2
              /\ \A i \in 1..Len(trace) :
                    trace[i].call = "download_file" =>
                        i < FirstCall("ModeSolver.parse_obj")
        /\ ret.exc = None =>
              /\ Downloads = ClaimedDownloads
              /\ task.file_type \notin {"Gz", "Hdf5"} =>
                    FirstCall("ModeSolver.parse_obj") # 0
              /\ trace[Len(trace)] = Ext("ModeSolver.to_file", "to_file", <<>>, "ok")
              /\ "to_file" \in ret.fs

\* C14 witness: get_modesolver has returned on a Task Record with ids whose
\* file_type is unset, after the two downloads of the third branch.
C14_Witness ==
    /\ GetModesolverEnded
    /\ ret.exc = None
    /\ task.file_type = None
    /\ task.solver_id = "s1"
    /\ Len(Downloads) = 2

\* get_result is called again on the Task Record on which it has just
\* succeeded
GetResultRepeated ==
    /\ GetResultEnded
    /\ ret.exc = None
    /\ GetResultEnded'

\* C15 as claimed: when get_result has succeeded on a Task Record, the
\* result is cached in the payload and a repeated get_result on the same
\* record issues no download.
C15_RepeatIssuesNoDownload ==
    [][GetResultRepeated =>
          /\ task.mode_solver.data_raw = copy_update_monitor(from_hdf5)
          /\ Downloads' = <<>>]_vars

\* C15 amended: when get_result has succeeded on a Task Record, the result
\* is cached in the payload, and the value returned is read from that cache;
\* get_result does not consult the cache, so a repeated get_result on the
\* same record attempts the compressed download again.
C15_RepeatDownloadsAgain ==
    [][GetResultRepeated =>
          /\ task.mode_solver.data_raw = copy_update_monitor(from_hdf5)
          /\ ret.val = mode_solver_data(task.mode_solver)
          /\ Downloads' # <<>>
          /\ Downloads'[1] = <<MODESOLVER_RESULT_GZ, <<task.solver_id>>>>]_vars

\* C15 witness: get_result has raised after both downloads failed, on a
\* Task Record whose payload holds the result an earlier get_result cached.
C15_Witness ==
    /\ GetResultEnded
    /\ ret.exc = "WebError"
    /\ Len(Downloads) = 2
    /\ task.solver_id = "s1"
    /\ task.mode_solver.data_raw = copy_update_monitor(from_hdf5)

\* the statuses on which run returns the "no result" sentinel
NoResultStatuses == {"diverged", "deleted"}

\* C16: run leaves the payload, its result cache included, as it was in
\* every step but the retrieval on success; in particular the step that
\* returns the "no result" sentinel (status diverged or deleted) writes
\* nothing to the cache, and a get_result that follows on the same Task
\* Record attempts the compressed download afresh.
C16_NoNegativeCaching ==
    [][/\ (ret'.op = "run" /\ ~(pc = "poll" /\ status = "success")) =>
              task'.mode_solver = task.mode_solver
       /\ (pc = "poll" /\ status \in NoResultStatuses /\ RunEnded') =>
              /\ ret'.exc = None
              /\ ret'.val = NoneVal
              /\ task'.mode_solver.data_raw = task.mode_solver.data_raw
       /\ (RunEnded /\ status \in NoResultStatuses /\ GetResultEnded') =>
              /\ Downloads' # <<>>
              /\ Downloads'[1] = <<MODESOLVER_RESULT_GZ, <<task.solver_id>>>>]_vars

\* C16 witness: run has returned the sentinel on status deleted, and the
\* payload's result cache is still empty.
C16_Witness ==
    /\ RunEnded
    /\ status = "deleted"
    /\ ret.exc = None
    /\ ret.val = NoneVal
    /\ task.task_id = "t1"
    /\ task.mode_solver.data_raw = NoneVal

\* the methods the claim lists as leaving the status alone
StatusKeepers == {"upload", "submit", "delete", "abort", "get_result", "get_log"}

\* C17: upload, submit, delete, abort, get_result and get_log leave the
\* status of the local Task Record as it was before the call, whether they
\* return or raise, called directly or as a step of run; the status of the
\* record the caller holds changes only when create or get_info returns a
\* record.
C17_StatusOnlyFromService ==
    [][/\ ret'.op \in StatusKeepers => task'.status = task.status
       /\ (ret'.op = "run" /\ pc # "idle") => task'.status = task.status
       /\ task'.status # task.status =>
              /\ ret'.exc = None
              /\ ret'.op \in {"create", "get_info"} \/ (ret'.op = "run" /\ pc = "idle")]_vars

\* C17 witness: submit has returned on a Task Record with ids and the local
\* status is still draft.
C17_Witness ==
    /\ pc = "idle"
    /\ ret.op = "submit"
    /\ ret.exc = None
    /\ task.task_id = "t1"
    /\ task.status = "draft"

DeleteEnded == pc = "idle" /\ ret.op = "delete"

\* the two requests of delete, in the order the claim gives
ClaimedDeletes ==
    << <<"tidy3d/modesolver/py/{task_id}/{solver_id}", <<task.task_id, task.solver_id>>>>,
       <<"tidy3d/tasks/{task_id}", <<task.task_id>>>> >>

\* C18: delete issues the solver deletion first and the parent task deletion
\* second, each at most once and nothing else; the parent deletion is issued
\* only when the solver deletion succeeded, and when either fails the error
\* is raised as it is with no further request, so that a failed parent
\* deletion leaves the solver deleted and the task present.
C18_DeleteOrderNoCompensation ==
    DeleteEnded =>
        /\ Len(trace) \in {1, 2}
        /\ \A i \in 1..Len(trace) :
              /\ trace[i].call = "http.delete"
              /\ <<trace[i].name, trace[i].ids>> = ClaimedDeletes[i]
              /\ i < Len(trace) => trace[i].out = "ok"
        /\ ret.exc = trace[Len(trace)].out \/ (ret.exc = None /\ Len(trace) = 2)
        /\ ret.exc = None <=> (Len(trace) = 2 /\ trace[2].out = "ok")
        /\ ret.cause = None

\* C18 witness: the parent deletion has failed after the solver deletion
\* succeeded, and delete has raised the transport error.
C18_Witness ==
    /\ DeleteEnded
    /\ Len(trace) = 2
    /\ trace[1].out = "ok"
    /\ trace[2].out = "TransportError"
    /\ trace[2].name = "tidy3d/tasks/{task_id}"
    /\ ret.exc = "TransportError"

\* the number of calls of function `call` in the history
Count(call) == Cardinality({i \in 1..Len(trace) : trace[i].call = call})

\* the i-th call of the history failed and its exception was absorbed: the
\* code went on to make another call
Absorbed(i) == trace[i].out # "ok" /\ i < Len(trace)

\* C20: no operation repeats a failed request. Ended create, get_info,
\* submit and abort have issued their Transport request at most once, get_log
\* exactly one download; a failed call is the last call of the operation and
\* its exception reaches the caller as it is (from get_result's fallback
\* download, as the cause of the WebError), except the one failure absorbed:
\* a ClientError of the compressed download of get_result, which is followed
\* by the fallback download and by nothing bound to the same artifact.
C20_NoRetry ==
    (pc = "idle" /\ ret.op # None) =>
        /\ ret.op = "create" => Count("http.post") <= 1 /\ Count("Folder.get") <= 1
        /\ ret.op = "get_info" => Len(trace) = 1 /\ Count("http.get") = 1
        /\ ret.op = "submit" => Len(trace) = 1 /\ Count("http.post") = 1
        /\ ret.op = "abort" => Len(trace) = 1 /\ Count("http.put") = 1
        /\ ret.op = "get_log" => Len(trace) = 1 /\ Count("download_file") = 1
        /\ \A i \in 1..Len(trace) :
              /\ Absorbed(i) =>
                    /\ ret.op \in {"get_result", "run"}
                    /\ trace[i] = Ext("download_gz_file", MODESOLVER_RESULT_GZ,
                                      <<task.solver_id>>, "ClientError")
                    /\ trace[i + 1].call = "download_file"
                    /\ trace[i + 1].name = MODESOLVER_RESULT
              /\ (trace[i].out # "ok" /\ i = Len(trace)) =>
                    \/ ret.exc = trace[i].out /\ ret.cause = None
                    \/ /\ trace[i].call = "download_file"
                       /\ trace[i].name = MODESOLVER_RESULT
                       /\ ret.exc = "WebError"
                       /\ ret.cause = trace[i].out
        /\ ret.exc \notin {None, "WebError"} =>
              /\ trace # <<>>
              /\ trace[Len(trace)].out = ret.exc

\* C20 witness: abort has raised the transport error of its one request.
C20_Witness ==
    /\ pc = "idle"
    /\ ret.op = "abort"
    /\ task.solver_id = "s1"
    /\ trace = <<Ext("http.put", "tidy3d/tasks/abort", <<"s1">>, "TransportError")>>
    /\ ret.exc = "TransportError"
    /\ ret.cause = None

\* run has left its loop or is about to: the last status observed is terminal
TerminalReported == pc = "poll" /\ status \in Terminal

\* run ended although the service reported no terminal status and no call
\* it made raised
EndedOnItsOwn ==
    /\ RunEnded
    /\ status \notin Terminal
    /\ ~(ret.exc # None /\ trace # <<>> /\ trace[Len(trace)].out = ret.exc)

\* C19: run ends whenever the service has reported a terminal status, and it
\* has no timeout: while the status it holds is not terminal the next poll is
\* its only step (up to the MaxPolls polls drawn here), and it never ends
\* with a non-terminal status unless a call it made raised.
C19_EndsOnlyOnTerminal ==
    /\ TerminalReported ~> RunEnded
    /\ [](~EndedOnItsOwn)
    /\ []((pc = "poll" /\ status \notin Terminal) =>
              /\ ~ENABLED RunEnd
              /\ NumPolls < MaxPolls => ENABLED RunPoll)

\* C19 witness: run is still polling after MaxPolls polls that all returned
\* a non-terminal status.
C19_Witness ==
    /\ pc = "poll"
    /\ ret = Started("run")
    /\ NumPolls = MaxPolls
    /\ Len(observed) = MaxPolls + 1
    /\ \A i \in 1..Len(observed) : observed[i] \notin Terminal

\* the positions in the history of the transfers of artifact `name`
Transfers(name) ==
    {i \in 1..Len(trace) : trace[i].call = "upload_file" /\ trace[i].name = name}

\* artifact `name` has been uploaded: a transfer of it succeeded
Uploaded(name) == \E i \in Transfers(name) : trace[i].out = "ok"

\* C21: in one upload, called directly or by run, each artifact is
\* transferred at most once, the display artifact bound to task_id and the
\* full payload bound to solver_id, and the transfer of the full payload is
\* attempted only after the transfer of the display artifact succeeded: the
\* full payload is never uploaded without the display artifact.
C21_DisplayBeforeFullPayload ==
    ret.op \in {"upload", "run"} =>
        /\ Cardinality(Transfers(SIM_FILE_HDF5_GZ)) <= 1
        /\ Cardinality(Transfers(MODESOLVER_GZ)) <= 1
        /\ \A i \in Transfers(SIM_FILE_HDF5_GZ) : trace[i].ids = <<task.task_id>>
        /\ \A j \in Transfers(MODESOLVER_GZ) :
              /\ trace[j].ids = <<task.solver_id>>
              /\ \E i \in Transfers(SIM_FILE_HDF5_GZ) : i < j /\ trace[i].out = "ok"
        /\ Uploaded(MODESOLVER_GZ) => Uploaded(SIM_FILE_HDF5_GZ)

\* C21 witness: upload has raised the failure of the transfer of the full
\* payload: the display artifact is uploaded and the full payload is not.
C21_Witness ==
    /\ pc = "idle"
    /\ ret.op = "upload"
    /\ ret.exc # None
    /\ task.task_id = "t1"
    /\ Uploaded(SIM_FILE_HDF5_GZ)
    /\ Transfers(MODESOLVER_GZ) # {}
    /\ ~Uploaded(MODESOLVER_GZ)

====
